---- MODULE Spec2Model ----
(***************************************************************************)
(* The sampling-and-alerting engine of the system monitoring dashboard     *)
(* (class SystemMonitorDashboard of src/project_code.py): the state the    *)
(* widget callbacks and the animation callback read and write, one action  *)
(* per callback.                                                           *)
(*                                                                         *)
(* Numbers.  Python floats are represented in fixed point: every numeric   *)
(* quantity (a percentage, a process count, a byte counter, a threshold, a *)
(* value typed in a text box) is held as Scale (= 10) times its value, so  *)
(* one decimal digit is exact.  Milliseconds stay plain integers.          *)
(*                                                                         *)
(* Text.  A text is a sequence of one-character strings, so that float(),  *)
(* int() and the format specifications are computed character by           *)
(* character.                                                              *)
(*                                                                         *)
(* Presentation.  Plot and panel redraws read the state and change none of *)
(* it; they are left out.  The colour lookups of the callbacks are taken   *)
(* to succeed.  Of the matplotlib objects the model keeps what the         *)
(* callbacks depend on: the status text, the check-button states, the      *)
(* animation's timer (armed or not, its interval, an expiry posted to the  *)
(* event loop and not yet dispatched), and TextBox.set_val, which notifies *)
(* the box's submit observers when the text it is given differs from the   *)
(* text displayed.                                                         *)
(***************************************************************************)
EXTENDS Integers, Sequences, FiniteSets, TLC

\* ------------------------------------------------------------------ bounds

\* Successful sampling rounds explored by Spec.
MaxRounds == 2

\* Successful sampling rounds explored by SpecHist (beyond max_data_points).
MaxHistRounds == 17

\* Cap of the (unbounded) alert log.
MaxAlertLog == 12

\* ------------------------------------------------------- program constants

Scale == 10

max_data_points == 15

ActiveAlertLimit == 8

IntervalMin == 1000

IntervalMax == 10000

InitialInterval == 2000

BytesPerMB == 1000000

Metrics == {"cpu", "memory", "disk", "network", "process"}

HistoryKeys ==
  {"time", "cpu", "memory", "disk", "network_sent", "network_recv", "process"}

\* self.thresholds of _init_, in fixed point.
DefaultThresholds ==
  [cpu |-> 80 * Scale, memory |-> 80 * Scale, disk |-> 80 * Scale,
   network |-> 1000000 * Scale, process |-> 200 * Scale]

\* The multiplier each threshold box's submit handler is created with.
Multiplier(metric) == IF metric = "network" THEN BytesPerMB ELSE 1


StatusActive == "Status: [ACTIVE]"
StatusPaused == "Status: [PAUSED]"
StatusRunning == "Status: [RUNNING]"
StatusIntervalUpdated == "Status: [INTERVAL UPDATED]"
StatusIntervalOutOfRange == "Status: [INTERVAL OUT OF RANGE]"
StatusInvalidInterval == "Status: [INVALID INTERVAL INPUT]"
\* f"Status: [{metric.upper()} THRESHOLD UPDATED]"
StatusThresholdUpdated(metric) ==
  CASE metric = "cpu" -> "Status: [CPU THRESHOLD UPDATED]"
    [] metric = "memory" -> "Status: [MEMORY THRESHOLD UPDATED]"
    [] metric = "disk" -> "Status: [DISK THRESHOLD UPDATED]"
    [] metric = "network" -> "Status: [NETWORK THRESHOLD UPDATED]"
    [] metric = "process" -> "Status: [PROCESS THRESHOLD UPDATED]"
StatusMustBePositive == "Status: [VALUE MUST BE POSITIVE]"
StatusInvalidThreshold == "Status: [INVALID THRESHOLD INPUT]"
StatusAlertTriggered == "Status: [ALERT TRIGGERED]"
StatusMetricsError == "Status: [METRICS ERROR]"

\* ------------------------------------------------------------------- text

DigitChars == <<"0", "1", "2", "3", "4", "5", "6", "7", "8", "9">>

IsDigit(c) == \E i \in 1..10 : DigitChars[i] = c

DigitVal(c) == (CHOOSE i \in 1..10 : DigitChars[i] = c) - 1

AllDigits(s) == \A i \in 1..Len(s) : IsDigit(s[i])

RECURSIVE DigitsValue(_)
DigitsValue(s) ==
  IF s = <<>> THEN 0
  ELSE 10 * DigitsValue(SubSeq(s, 1, Len(s) - 1)) + DigitVal(s[Len(s)])

IndexOfPoint(s) ==
  IF \E i \in 1..Len(s) : s[i] = "."
  THEN CHOOSE i \in 1..Len(s) : s[i] = "." /\ \A j \in 1..(i - 1) : s[j] # "."
  ELSE 0

\* float(text): [ok |-> FALSE] stands for ValueError; otherwise val is the
\* number in fixed point.  An optional sign, digits, an optional point and
\* digits, at least one digit in all.  Fraction digits after the first are
\* below the resolution of the fixed point and are dropped.
ParseFloat(text) ==
  LET signed   == text # <<>> /\ text[1] \in {"-", "+"}
      body     == IF signed THEN Tail(text) ELSE text
      p        == IndexOfPoint(body)
      intPart  == IF p = 0 THEN body ELSE SubSeq(body, 1, p - 1)
      fracPart == IF p = 0 THEN <<>> ELSE SubSeq(body, p + 1, Len(body))
      wellFormed == /\ AllDigits(intPart)
                    /\ AllDigits(fracPart)
                    /\ Len(intPart) + Len(fracPart) > 0
      magnitude == Scale * DigitsValue(intPart)
                     + (IF fracPart = <<>> THEN 0 ELSE DigitVal(fracPart[1]))
  IN IF wellFormed
     THEN [ok |-> TRUE,
           val |-> IF signed /\ text[1] = "-" THEN 0 - magnitude ELSE magnitude]
     ELSE [ok |-> FALSE]

RECURSIVE NatToText(_)
NatToText(n) ==
  IF n < 10 THEN <<DigitChars[n + 1]>>
  ELSE NatToText(n \div 10) \o <<DigitChars[(n % 10) + 1]>>

\* f"{int(x)}" for a fixed-point x >= 0: truncation to the integer part.
FormatInt(x) == NatToText(x \div Scale)

\* f"{x:.1f}" for a fixed-point x >= 0: one fraction digit.
FormatOneDecimal(x) == NatToText(x \div Scale) \o <<".">> \o <<DigitChars[(x % Scale) + 1]>>

\* threshold / multiplier in fixed point, to the nearest representable value.
Quotient(x, m) == (2 * x + m) \div (2 * m)

\* ------------------------------------------------------------------- state

VARIABLES
  thresholds,          \* self.thresholds: metric -> limit (fixed point)
  update_interval,     \* self.update_interval, ms
  alerts,              \* self.alerts: the capped view, (timestamp, message) pairs
  alert_history,       \* self.alert_history: the full log
  metrics_history,     \* self.metrics_history: key -> series
  animation,           \* self.animation is set (run() has created the FuncAnimation)
  paused,              \* self.paused
  show_network_sent,   \* self.show_network_sent
  show_network_recv,   \* self.show_network_recv
  network_toggle,      \* self.network_toggle: the two check-button states
  status_text,         \* self.status_text
  timer_running,       \* animation.event_source is armed
  timer_interval,      \* animation.event_source.interval, ms
  timer_due,           \* an expiry of the timer is posted and not yet dispatched
  metrics,             \* what get_system_metrics returned last (NotSampled before)
  sampled,             \* every snapshot get_system_metrics has returned, in order
  tick                 \* the call of update_dashboard in progress: where it is,
                       \* its snapshot and the state it was entered in

vars ==
  <<thresholds, update_interval, alerts, alert_history, metrics_history, animation,
    paused, show_network_sent, show_network_recv, network_toggle, status_text,
    timer_running, timer_interval, timer_due, metrics, sampled, tick>>

\* None, the result of get_system_metrics when a query raised.
None == [none |-> TRUE]

\* No call of get_system_metrics yet.
NotSampled == [none |-> FALSE]

IsSnapshot(m) == DOMAIN m = HistoryKeys

Min(a, b) == IF a < b THEN a ELSE b

LastN(s, n) == IF Len(s) > n THEN SubSeq(s, Len(s) - n + 1, Len(s)) ELSE s

\* No call of update_dashboard is in progress.
IdleTick == [pc |-> "idle"]

\* The state after _init_; run() has not been called yet.
Init ==
  /\ thresholds = DefaultThresholds
  /\ update_interval = InitialInterval
  /\ alerts = <<>>
  /\ alert_history = <<>>
  /\ metrics_history = [k \in HistoryKeys |-> <<>>]
  /\ animation = FALSE
  /\ paused = FALSE
  /\ show_network_sent = TRUE
  /\ show_network_recv = TRUE
  /\ network_toggle = <<TRUE, TRUE>>
  /\ status_text = StatusActive
  /\ timer_running = FALSE
  /\ timer_interval = 0
  /\ timer_due = FALSE
  /\ metrics = NotSampled
  /\ sampled = <<>>
  /\ tick = IdleTick

\* ------------------------------------------------------------------ timer

\* event_source.stop(): the timer is disarmed.  Whether an expiry already
\* posted to the event loop is withdrawn depends on the GUI backend:
\* withdrawn says which.
TimerStop(withdrawn) ==
  /\ timer_running' = FALSE
  /\ timer_due' = (timer_due /\ ~withdrawn)

\* Mutant of TimerStart: starting calls the animation's step at once.
TimerStart_FiresAtOnce(withdrawn) ==
  /\ timer_running' = TRUE
  /\ timer_due' = TRUE

\* event_source.start(): TimerBase.start stops the timer and arms it again
\* with the interval the event source holds.
TimerStart(withdrawn) ==
  /\ timer_running' = TRUE
  /\ timer_due' = (timer_due /\ ~withdrawn)

\* The armed timer expires: the animation's step is posted to the event loop.
TimerExpire ==
  /\ animation
  /\ timer_running
  /\ ~timer_due
  /\ timer_due' = TRUE
  /\ UNCHANGED <<tick, thresholds, update_interval, alerts, alert_history, metrics_history,
                 animation, paused, show_network_sent, show_network_recv,
                 network_toggle, status_text, timer_running, timer_interval,
                 metrics, sampled>>

\* run(): the FuncAnimation is created with interval = self.update_interval;
\* plt.show() starts the event loop, the animation draws its first frame
\* (a call of update_dashboard) and starts its timer.
run ==
  /\ ~animation
  /\ animation' = TRUE
  /\ timer_interval' = update_interval
  /\ timer_running' = TRUE
  /\ timer_due' = TRUE
  /\ UNCHANGED <<tick, thresholds, update_interval, alerts, alert_history, metrics_history,
                 paused, show_network_sent, show_network_recv, network_toggle,
                 status_text, metrics, sampled>>

\* ------------------------------------------------------- widget callbacks

\* toggle_pause(event): the pause button was clicked.
toggle_pause(withdrawn) ==
  /\ animation
  /\ paused' = ~paused
  /\ IF paused'
     THEN /\ status_text' = StatusPaused
          /\ TimerStop(withdrawn)
     ELSE /\ status_text' = StatusRunning
          /\ TimerStart(withdrawn)
  /\ UNCHANGED <<tick, thresholds, update_interval, alerts, alert_history, metrics_history,
                 animation, show_network_sent, show_network_recv, network_toggle,
                 timer_interval, metrics, sampled>>

\* A toggle that also empties the network series it hides.
toggle_network_visibility_ClearsHidden(i) ==
  /\ animation
  /\ network_toggle' = [network_toggle EXCEPT ![i] = ~network_toggle[i]]
  /\ show_network_sent' = network_toggle'[1]
  /\ show_network_recv' = network_toggle'[2]
  /\ metrics_history' =
       [metrics_history EXCEPT
          !["network_sent"] = IF show_network_sent' THEN @ ELSE <<>>,
          !["network_recv"] = IF show_network_recv' THEN @ ELSE <<>>]
  /\ UNCHANGED <<tick, thresholds, update_interval, alerts, alert_history,
                 animation, paused, status_text, timer_running, timer_interval,
                 timer_due, metrics, sampled>>

\* toggle_network_visibility(label): check button i was clicked (the widget
\* has flipped its state i before it calls back).
toggle_network_visibility(i) ==
  /\ animation
  /\ network_toggle' = [network_toggle EXCEPT ![i] = ~network_toggle[i]]
  /\ show_network_sent' = network_toggle'[1]
  /\ show_network_recv' = network_toggle'[2]
  /\ UNCHANGED <<tick, thresholds, update_interval, alerts, alert_history, metrics_history,
                 animation, paused, status_text, timer_running, timer_interval,
                 timer_due, metrics, sampled>>

\* A value handed to update_interval_changed: a number (the slider's float,
\* in fixed point seconds) or a text.
NumVal(v) == [kind |-> "num", val |-> v]
TextVal(t) == [kind |-> "text", text |-> t]

\* float(val)
FloatOf(val) == IF val.kind = "num" THEN [ok |-> TRUE, val |-> val.val] ELSE ParseFloat(val.text)

\* Mutant of update_interval_changed: no range check.
update_interval_changed_NoRangeCheck(val, withdrawn) ==
  LET f == FloatOf(val)
      new_interval == (f.val * 1000) \div Scale
      restart == f.ok /\ val.kind = "num" /\ animation /\ ~paused
  IN /\ animation
     /\ update_interval' = IF f.ok THEN new_interval ELSE update_interval
     /\ status_text' = IF f.ok /\ val.kind = "num" THEN StatusIntervalUpdated
                       ELSE StatusInvalidInterval
     /\ IF restart
        THEN /\ timer_interval' = update_interval'
             /\ TimerStart(withdrawn)
        ELSE UNCHANGED <<timer_interval, timer_running, timer_due>>
     /\ UNCHANGED <<tick, thresholds, alerts, alert_history, metrics_history, animation,
                    paused, show_network_sent, show_network_recv, network_toggle,
                    metrics, sampled>>

\* update_interval_changed(val).  f"{val:.1f}" raises ValueError for a text,
\* after self.update_interval has been assigned; the handler's except clause
\* then reports an invalid input and the timer is not touched.
update_interval_changed(val, withdrawn) ==
  LET f == FloatOf(val)
      new_interval == (f.val * 1000) \div Scale
      inRange == f.ok /\ IntervalMin <= new_interval /\ new_interval <= IntervalMax
      formats == val.kind = "num"
      restart == inRange /\ formats /\ animation /\ ~paused
  IN /\ animation
     /\ update_interval' = IF inRange THEN new_interval ELSE update_interval
     /\ status_text' = IF ~f.ok THEN StatusInvalidInterval
                       ELSE IF ~inRange THEN StatusIntervalOutOfRange
                       ELSE IF ~formats THEN StatusInvalidInterval
                       ELSE StatusIntervalUpdated
     /\ IF restart
        THEN /\ timer_interval' = update_interval'
             /\ TimerStart(withdrawn)
        ELSE UNCHANGED <<timer_interval, timer_running, timer_due>>
     /\ UNCHANGED <<tick, thresholds, alerts, alert_history, metrics_history, animation,
                    paused, show_network_sent, show_network_recv, network_toggle,
                    metrics, sampled>>

\* The text a threshold box is reset to after a rejected input:
\* f"{thresholds[metric]/multiplier:.1f}" for network, else
\* f"{int(thresholds[metric]/multiplier)}".
ResetText(th, metric) ==
  IF metric = "network"
  THEN FormatOneDecimal(Quotient(th[metric], Multiplier(metric)))
  ELSE FormatInt(Quotient(th[metric], Multiplier(metric)))

\* The body of update_threshold(metric, text, multiplier) on the pair
\* st = [thresholds, status_text], with the box displaying `text`.  A rejected
\* input resets the box with TextBox.set_val, which returns at once when the
\* box already displays the reset text and otherwise displays it and notifies
\* the submit observers: update_threshold runs again, on the reset text.
RECURSIVE SubmitThreshold(_, _, _)
SubmitThreshold(st, metric, text) ==
  LET f == ParseFloat(text)
      new_val == f.val * Multiplier(metric)
      reset == ResetText(st.thresholds, metric)
      rejected(status) ==
        LET st1 == [st EXCEPT !.status_text = status]
        IN IF text = reset THEN st1 ELSE SubmitThreshold(st1, metric, reset)
  IN IF ~f.ok THEN rejected(StatusInvalidThreshold)
     ELSE IF new_val > 0
          THEN [thresholds |-> [st.thresholds EXCEPT ![metric] = new_val],
                status_text |-> StatusThresholdUpdated(metric)]
          ELSE rejected(StatusMustBePositive)

\* update_threshold(metric, text, multiplier): text was submitted in the
\* threshold box of metric.
update_threshold(metric, text) ==
  LET st == SubmitThreshold([thresholds |-> thresholds, status_text |-> status_text],
                            metric, text)
  IN /\ animation
     /\ thresholds' = st.thresholds
     /\ status_text' = st.status_text
     /\ UNCHANGED <<tick, update_interval, alerts, alert_history, metrics_history, animation,
                    paused, show_network_sent, show_network_recv, network_toggle,
                    timer_running, timer_interval, timer_due, metrics, sampled>>

\* ------------------------------------------------------------- sampling

\* get_system_metrics(): what psutil and the clock return is the input.
\* reading = None when a query raised; otherwise the dictionary built from
\* the reading, stamped with the clock's time.
get_system_metrics(reading, time) ==
  IF reading = None THEN None
  ELSE [time |-> time,
        cpu |-> reading.cpu,
        memory |-> reading.memory,
        disk |-> reading.disk,
        process |-> reading.process,
        network_sent |-> reading.network_sent,
        network_recv |-> reading.network_recv]

\* Mutant of NewAlerts: the comparisons are >= .
NewAlerts_NotStrict(m, th) ==
  (IF m.cpu >= th.cpu THEN <<<<"CPU", m.cpu, th.cpu>>>> ELSE <<>>)
  \o (IF m.memory >= th.memory THEN <<<<"MEM", m.memory, th.memory>>>> ELSE <<>>)
  \o (IF m.disk >= th.disk THEN <<<<"DISK", m.disk, th.disk>>>> ELSE <<>>)
  \o (IF m.process >= th.process THEN <<<<"PROC", m.process, th.process>>>> ELSE <<>>)

\* The messages check_thresholds builds, in its order: a message is the
\* triple of its label and the two numbers it formats.  The two network
\* comparisons (of the cumulative counters) end in `pass`.
NewAlerts(m, th) ==
  (IF m.cpu > th.cpu THEN <<<<"CPU", m.cpu, th.cpu>>>> ELSE <<>>)
  \o (IF m.memory > th.memory THEN <<<<"MEM", m.memory, th.memory>>>> ELSE <<>>)
  \o (IF m.disk > th.disk THEN <<<<"DISK", m.disk, th.disk>>>> ELSE <<>>)
  \o (IF m.network_sent > th.network THEN <<>> ELSE <<>>)
  \o (IF m.network_recv > th.network THEN <<>> ELSE <<>>)
  \o (IF m.process > th.process THEN <<<<"PROC", m.process, th.process>>>> ELSE <<>>)

\* [(timestamp, alert) for alert in new_alerts]
AlertTuples(m, th) ==
  LET new_alerts == NewAlerts(m, th)
  IN [i \in 1..Len(new_alerts) |-> <<m.time, new_alerts[i]>>]

\* Mutant of check_thresholds: the view keeps its first events.
check_thresholds_KeepsFirst(a, m, th) ==
  LET alert_tuples == AlertTuples(m, th)
      all == a.alerts \o alert_tuples
  IN IF alert_tuples = <<>> THEN a
     ELSE [alerts |-> SubSeq(all, 1, Min(Len(all), ActiveAlertLimit)),
           alert_history |-> a.alert_history \o alert_tuples,
           status_text |-> StatusAlertTriggered]

\* Mutant of check_thresholds: the log is limited like the view.
check_thresholds_CapsLog(a, m, th) ==
  LET alert_tuples == AlertTuples(m, th)
  IN IF alert_tuples = <<>> THEN a
     ELSE [alerts |-> LastN(a.alerts \o alert_tuples, ActiveAlertLimit),
           alert_history |-> LastN(a.alert_history \o alert_tuples, ActiveAlertLimit),
           status_text |-> StatusAlertTriggered]

\* Mutant of check_thresholds: a round without alerts clears the view.
check_thresholds_ClearsView(a, m, th) ==
  LET alert_tuples == AlertTuples(m, th)
  IN IF alert_tuples = <<>> THEN [a EXCEPT !.alerts = <<>>]
     ELSE [alerts |-> LastN(a.alerts \o alert_tuples, ActiveAlertLimit),
           alert_history |-> a.alert_history \o alert_tuples,
           status_text |-> StatusAlertTriggered]

\* check_thresholds(metrics) on a = [alerts, alert_history, status_text].
check_thresholds(a, m, th) ==
  LET alert_tuples == AlertTuples(m, th)
  IN IF alert_tuples = <<>> THEN a
     ELSE [alerts |-> LastN(a.alerts \o alert_tuples, ActiveAlertLimit),
           alert_history |-> a.alert_history \o alert_tuples,
           status_text |-> StatusAlertTriggered]

\* Mutant of AppendHistory: the trim keeps the oldest entries.
AppendHistory_KeepOldest(h, m) ==
  [k \in HistoryKeys |->
     LET s == Append(h[k], m[k])
     IN IF Len(s) > max_data_points THEN SubSeq(s, 1, max_data_points) ELSE s]

\* Mutant of AppendHistory: the trim leaves the time series out.
AppendHistory_TimeNotTrimmed(h, m) ==
  [k \in HistoryKeys |->
     IF k = "time" THEN Append(h[k], m[k])
     ELSE LastN(Append(h[k], m[k]), max_data_points)]

\* The appends of update_dashboard and the trim of every series.
AppendHistory(h, m) ==
  [k \in HistoryKeys |-> LastN(Append(h[k], m[k]), max_data_points)]

\* Mutant of MetricsErrorBranch: the failed round is shown as a gap.
MetricsErrorBranch_AppendsGap(st) ==
  [st EXCEPT !.status_text = StatusMetricsError,
             !.metrics_history =
                [k \in HistoryKeys |-> LastN(Append(@[k], 0), max_data_points)]]

\* Mutant of MetricsErrorBranch: the failed round is skipped in silence.
MetricsErrorBranch_Silent(st) == st

\* update_dashboard when get_system_metrics returned None: the round is
\* skipped.  st = [alerts, alert_history, metrics_history, status_text].
MetricsErrorBranch(st) == [st EXCEPT !.status_text = StatusMetricsError]

\* Mutant of CheckStep: the snapshot is appended before the thresholds are
\* checked.
CheckStep_AppendsFirst(st, m, th) ==
  LET a == check_thresholds([alerts |-> st.alerts, alert_history |-> st.alert_history,
                             status_text |-> st.status_text], m, th)
  IN [alerts |-> a.alerts,
      alert_history |-> a.alert_history,
      metrics_history |-> AppendHistory(st.metrics_history, m),
      status_text |-> a.status_text]

\* update_dashboard on the snapshot m, first part: self.check_thresholds(metrics).
\* The history is left as it is.
CheckStep(st, m, th) ==
  LET a == check_thresholds([alerts |-> st.alerts, alert_history |-> st.alert_history,
                             status_text |-> st.status_text], m, th)
  IN [alerts |-> a.alerts,
      alert_history |-> a.alert_history,
      metrics_history |-> st.metrics_history,
      status_text |-> a.status_text]

\* update_dashboard on the snapshot m, second part: the snapshot is appended
\* to the history and the history trimmed; the status goes back to RUNNING
\* unless paused or it reads ALERT TRIGGERED or METRICS ERROR.
AppendStep(st, isPaused, m) ==
  [st EXCEPT !.metrics_history = AppendHistory(@, m),
             !.status_text =
                IF ~isPaused /\ @ \notin {StatusAlertTriggered, StatusMetricsError}
                THEN StatusRunning
                ELSE @]

\* update_dashboard on the snapshot m: the thresholds are checked, then the
\* snapshot is appended to the history.
SampledBranch(st, m, th) == AppendStep(CheckStep(st, m, th), FALSE, m)

\* Mutant of DashboardUpdate: no return when paused.
DashboardUpdate_IgnoresPause(st, isPaused, m, th) ==
  IF m = None THEN MetricsErrorBranch(st) ELSE SampledBranch(st, m, th)

\* The body of update_dashboard(frame) on st, m being the result of
\* get_system_metrics (not called when paused).
DashboardUpdate(st, isPaused, m, th) ==
  IF isPaused THEN st
  ELSE IF m = None THEN MetricsErrorBranch(st)
  ELSE SampledBranch(st, m, th)

\* update_dashboard(frame): the event loop dispatches the posted expiry.
update_dashboard(reading, time) ==
  LET m == get_system_metrics(reading, time)
      st == DashboardUpdate([alerts |-> alerts, alert_history |-> alert_history,
                             metrics_history |-> metrics_history,
                             status_text |-> status_text], paused, m, thresholds)
  IN /\ animation
     /\ timer_due
     /\ timer_due' = FALSE
     /\ alerts' = st.alerts
     /\ alert_history' = st.alert_history
     /\ metrics_history' = st.metrics_history
     /\ status_text' = st.status_text
     /\ metrics' = IF paused THEN metrics ELSE m
     /\ sampled' = IF paused \/ m = None THEN sampled ELSE Append(sampled, m)
     /\ UNCHANGED <<tick, thresholds, update_interval, animation, paused, show_network_sent,
                    show_network_recv, network_toggle, timer_running, timer_interval>>

\* --------------------------------------------- update_dashboard, by steps

\* Callbacks dispatched while another callback runs.
Idle_Preemptive == TRUE

\* No callback is running.  plt.show() runs the event loop on the thread
\* that called run(); the timer's and the widgets' callbacks are dispatched
\* by it one at a time, each running to its return (the source starts no
\* thread).
Idle == tick.pc = "idle"

\* The fields of the dashboard update_dashboard works on.
DashboardState ==
  [alerts |-> alerts, alert_history |-> alert_history,
   metrics_history |-> metrics_history, status_text |-> status_text]

\* update_dashboard(frame) is dispatched for the posted expiry: it returns
\* at once when paused, and goes on to get_system_metrics otherwise.
update_dashboard_enter ==
  /\ animation
  /\ timer_due
  /\ Idle
  /\ timer_due' = FALSE
  /\ tick' = IF paused THEN IdleTick
             ELSE [pc |-> "sampling",
                   entry |-> [st |-> DashboardState, thresholds |-> thresholds]]
  /\ UNCHANGED <<thresholds, update_interval, alerts, alert_history, metrics_history,
                 animation, paused, show_network_sent, show_network_recv,
                 network_toggle, status_text, timer_running, timer_interval,
                 metrics, sampled>>

\* get_system_metrics() returns (it blocks for the 0.5 s of cpu_percent);
\* None ends the call with the METRICS ERROR status.
update_dashboard_sample(reading, time) ==
  LET m == get_system_metrics(reading, time)
      st == IF m = None THEN MetricsErrorBranch(DashboardState) ELSE DashboardState
  IN /\ tick.pc = "sampling"
     /\ metrics' = m
     /\ sampled' = IF m = None THEN sampled ELSE Append(sampled, m)
     /\ alerts' = st.alerts
     /\ alert_history' = st.alert_history
     /\ metrics_history' = st.metrics_history
     /\ status_text' = st.status_text
     /\ tick' = IF m = None THEN IdleTick
                ELSE [pc |-> "checking", entry |-> tick.entry, m |-> m]
     /\ UNCHANGED <<thresholds, update_interval, animation, paused, show_network_sent,
                    show_network_recv, network_toggle, timer_running, timer_interval,
                    timer_due>>

\* self.check_thresholds(metrics) returns.
update_dashboard_check ==
  LET st == CheckStep(DashboardState, tick.m, thresholds)
  IN /\ tick.pc = "checking"
     /\ alerts' = st.alerts
     /\ alert_history' = st.alert_history
     /\ metrics_history' = st.metrics_history
     /\ status_text' = st.status_text
     /\ tick' = [tick EXCEPT !.pc = "appending"]
     /\ UNCHANGED <<thresholds, update_interval, animation, paused, show_network_sent,
                    show_network_recv, network_toggle, timer_running, timer_interval,
                    timer_due, metrics, sampled>>

\* The appends, the trim and the status update; update_dashboard returns.
update_dashboard_append ==
  LET st == AppendStep(DashboardState, paused, tick.m)
  IN /\ tick.pc = "appending"
     /\ alerts' = st.alerts
     /\ alert_history' = st.alert_history
     /\ metrics_history' = st.metrics_history
     /\ status_text' = st.status_text
     /\ tick' = IdleTick
     /\ UNCHANGED <<thresholds, update_interval, animation, paused, show_network_sent,
                    show_network_recv, network_toggle, timer_running, timer_interval,
                    timer_due, metrics, sampled>>

\* ------------------------------------------------------------ inputs

Reading(cpu, memory, disk, process, sent, recv) ==
  [cpu |-> cpu * Scale, memory |-> memory * Scale, disk |-> disk * Scale,
   process |-> process * Scale, network_sent |-> sent * Scale,
   network_recv |-> recv * Scale]

\* Every metric at its default threshold, not above it.
Calm == Reading(80, 80, 80, 200, 0, 0)

\* The cpu above its default threshold; 5 MB sent since boot.
CpuHot == Reading(85, 50, 50, 150, 5000000, 0)

\* Everything above its default threshold.
AllHot == Reading(85, 90, 95, 250, 5000000, 5000000)

Readings == {Calm, CpuHot, AllHot}

HistReadings == {Calm, AllHot}

\* The time of the clock at the last successful sample.
LastTime == IF sampled = <<>> THEN 0 ELSE sampled[Len(sampled)].time

\* Seconds between two successive samples: the timer's interval is at least
\* IntervalMin (1 s).
ClockSteps == {1}

ThresholdTexts ==
  { <<"a", "b", "c">>, <<"0">>, <<"8", "2", ".", "5">> }

\* A valid limit: equal to the memory of AllHot, between the two cpu readings
\* and the two disk readings, below every process count.
AlertTexts == { <<"9", "0">> }

\* The threshold boxes submitted in the alerting specification.
AlertMetrics == {"cpu", "memory", "disk", "process"}

\* 0.5 s and 10.5 s are out of range, 3 s is in range, "abc" is no number.
IntervalValues ==
  { NumVal(5), NumVal(30), NumVal(105), TextVal(<<"a", "b", "c">>) }

\* The alert log stays within its cap after recording the alerts of reading.
WithinAlertCap(reading) ==
  IF reading = None \/ paused THEN TRUE
  ELSE Len(alert_history) + Len(NewAlerts(reading, thresholds)) <= MaxAlertLog

\* ------------------------------------------------------- specifications

Tick(readings, steps, rounds) ==
  \E reading \in readings \cup {None}, dt \in steps :
    /\ Len(sampled) < rounds
    /\ WithinAlertCap(reading)
    /\ update_dashboard(reading, LastTime + dt)

\* The whole engine: every callback, two readings, the cpu threshold box.
Next ==
  \/ run
  \/ TimerExpire
  \/ Tick(HistReadings, ClockSteps, MaxRounds)
  \/ \E w \in BOOLEAN : toggle_pause(w)
  \/ \E i \in 1..2 : toggle_network_visibility(i)
  \/ \E val \in IntervalValues, w \in BOOLEAN : update_interval_changed(val, w)
  \/ \E text \in ThresholdTexts : update_threshold("cpu", text)

Spec == Init /\ [][Next]_vars

\* Sampling and alerting: every reading, the threshold box of every metric
\* that check_thresholds can alert on.
NextAlert ==
  \/ run
  \/ TimerExpire
  \/ Tick(Readings, ClockSteps, MaxRounds)
  \/ \E metric \in AlertMetrics, text \in AlertTexts : update_threshold(metric, text)

SpecAlert == Init /\ [][NextAlert]_vars

\* The history beyond its capacity and the alert view beyond its limit.
NextHist ==
  \/ run
  \/ TimerExpire
  \/ Tick(HistReadings, ClockSteps, MaxHistRounds)
  \/ \E w \in BOOLEAN : toggle_pause(w)

SpecHist == Init /\ [][NextHist]_vars

\* update_dashboard taken step by step; the event loop dispatches the
\* widgets' callbacks and the next call of update_dashboard only when Idle.
NextSteps ==
  \/ run
  \/ TimerExpire
  \/ (Len(sampled) < MaxRounds /\ update_dashboard_enter)
  \/ \E reading \in HistReadings \cup {None}, dt \in ClockSteps :
       WithinAlertCap(reading) /\ update_dashboard_sample(reading, LastTime + dt)
  \/ update_dashboard_check
  \/ update_dashboard_append
  \/ (Idle /\ \E w \in BOOLEAN : toggle_pause(w))
  \/ (Idle /\ \E w \in BOOLEAN : update_interval_changed(NumVal(30), w))
  \/ (Idle /\ \E text \in AlertTexts : update_threshold("cpu", text))

SpecSteps == Init /\ [][NextSteps]_vars

\* The timer of the animation fires one interval after it was armed, and
\* goes on firing while it is armed: an armed timer with no expiry posted
\* eventually posts one.
NextFair ==
  \/ run
  \/ TimerExpire
  \/ Tick(HistReadings, ClockSteps, MaxRounds)
  \/ \E w \in BOOLEAN : toggle_pause(w)
  \/ \E w \in BOOLEAN : update_interval_changed(NumVal(30), w)

SpecFair == Init /\ [][NextFair]_vars /\ WF_vars(TimerExpire)

\* ------------------------------------------------------------- claims


\* The events a step appends to the alert log.
Recorded == SubSeq(alert_history', Len(alert_history) + 1, Len(alert_history'))

\* C1: every series of the history holds at most max_data_points entries, and
\* they are the last min(max_data_points, rounds sampled) snapshots, in the
\* order they were sampled.
C1_HistoryIsLastSampled ==
  LET n == Min(max_data_points, Len(sampled))
  IN \A k \in HistoryKeys :
       /\ Len(metrics_history[k]) <= max_data_points
       /\ metrics_history[k] = [i \in 1..n |-> sampled[Len(sampled) - n + i][k]]

\* C1 witness: more rounds than the capacity were sampled, alerts were
\* raised, and the last tick found the source unavailable.
C1_Witness ==
  /\ Len(sampled) > max_data_points
  /\ metrics = None
  /\ alert_history # <<>>

\* The label of the message check_thresholds builds for a metric.
Label(metric) ==
  CASE metric = "cpu" -> "CPU"
    [] metric = "memory" -> "MEM"
    [] metric = "disk" -> "DISK"
    [] metric = "process" -> "PROC"

\* C2: a round that samples a snapshot records, for each of cpu, memory, disk
\* and process, exactly one alert when the value is greater than the
\* threshold and none when it is not (none at equality).
C2_StrictThresholdPerMetric ==
  [][sampled' # sampled =>
       \A metric \in {"cpu", "memory", "disk", "process"} :
         Cardinality({i \in 1..Len(Recorded) : Recorded[i][2][1] = Label(metric)})
           = IF metrics'[metric] > thresholds[metric] THEN 1 ELSE 0]_vars

\* C2 witness: the last snapshot has its memory equal to the memory
\* threshold, its cpu below and its disk above theirs, and alerts are shown.
C2_Witness ==
  /\ IsSnapshot(metrics)
  /\ metrics.memory = thresholds.memory
  /\ metrics.cpu < thresholds.cpu
  /\ metrics.disk > thresholds.disk
  /\ alerts # <<>>
  /\ alerts[Len(alerts)][1] = metrics.time

\* float(text) raises, or the value it gives times the multiplier is <= 0.
Rejected(metric, text) ==
  LET f == ParseFloat(text)
  IN IF f.ok THEN f.val * Multiplier(metric) <= 0 ELSE TRUE

\* C3: a threshold update whose text is no number, or whose value is <= 0,
\* leaves every threshold, the history, the alerts, the alert log, the
\* interval and the paused flag as they were.
C3_RejectedThresholdChangesNothing ==
  [][\A metric \in Metrics, text \in ThresholdTexts :
       (Rejected(metric, text) /\ update_threshold(metric, text))
         => UNCHANGED <<thresholds, metrics_history, alerts, alert_history,
                        update_interval, paused>>]_vars

\* float(val) is a number whose milliseconds are outside IntervalMin..IntervalMax.
OutOfRange(val) ==
  LET f == FloatOf(val)
      ms == (f.val * 1000) \div Scale
  IN IF f.ok THEN ms < IntervalMin \/ ms > IntervalMax ELSE FALSE

\* C4: an interval update outside 1000..10000 ms leaves update_interval, the
\* timer's interval, the timer's running state and the paused flag as they
\* were, and shows the out-of-range status.
C4_OutOfRangeIntervalRejected ==
  [][\A val \in IntervalValues, w \in BOOLEAN :
       (OutOfRange(val) /\ update_interval_changed(val, w))
         => /\ UNCHANGED <<update_interval, timer_interval, timer_running, timer_due, paused>>
            /\ status_text' = StatusIntervalOutOfRange]_vars

\* C4 witness: an out-of-range value was rejected after a change to 3 s was
\* accepted; the timer still runs at 3 s.
C4_Witness ==
  /\ status_text = StatusIntervalOutOfRange
  /\ update_interval = 3000
  /\ timer_interval = 3000
  /\ timer_running
  /\ ~paused

\* C5: a tick in which get_system_metrics returns None (the step dispatches
\* the posted expiry while not paused and the source's last result is None)
\* leaves every series of the history, the alerts and the alert log as they
\* were.
C5_FailedTickChangesNothing ==
  [][(timer_due /\ ~timer_due' /\ ~paused /\ ~paused' /\ metrics' = None)
       => UNCHANGED <<metrics_history, alerts, alert_history>>]_vars

\* C5 witness: the source failed in the last tick, after rounds that filled
\* the history and raised alerts.
C5_Witness ==
  /\ metrics = None
  /\ status_text = StatusMetricsError
  /\ ~timer_due
  /\ metrics_history["time"] # <<>>
  /\ alerts # <<>>

\* C6: a step taken while paused (and leaving the dashboard paused) samples
\* nothing and leaves the history, the alerts and the alert log as they were.
C6_FrozenWhilePaused ==
  [][(paused /\ paused')
       => UNCHANGED <<metrics_history, alerts, alert_history, sampled, metrics>>]_vars

\* C6 witness: paused with a history and alerts, after an interval change was
\* accepted during the pause (the timer still holds the old interval) and
\* with no expiry left to dispatch.
C6_Witness ==
  /\ paused
  /\ status_text = StatusIntervalUpdated
  /\ update_interval # timer_interval
  /\ ~timer_due
  /\ metrics_history["time"] # <<>>
  /\ alert_history # <<>>

\* C7: a snapshot is appended only by dispatching the one posted expiry of
\* the timer, one snapshot for it, while not paused; and the step that
\* resumes arms the timer, posts no expiry of its own and appends nothing.
C7_NoDoubleFire ==
  [][/\ (sampled' # sampled)
          => /\ timer_due /\ ~timer_due'
             /\ Len(sampled') = Len(sampled) + 1
             /\ ~paused /\ ~paused'
     /\ (paused /\ ~paused')
          => /\ sampled' = sampled
             /\ metrics_history' = metrics_history
             /\ timer_running'
             /\ (timer_due' => timer_due)]_vars

\* C7 witness: resumed (the RUNNING status with nothing sampled yet can only
\* come from resuming), the timer armed and no expiry posted.
C7_Witness ==
  /\ animation
  /\ ~paused
  /\ status_text = StatusRunning
  /\ sampled = <<>>
  /\ timer_running
  /\ ~timer_due

\* C8: whenever the scheduler is running, the timer's interval is
\* update_interval.
C8_RunningAtConfiguredInterval ==
  (animation /\ ~paused /\ timer_running) => timer_interval = update_interval

\* C9: the alerts view never holds more than ActiveAlertLimit events, and a
\* step that records events leaves in it the last ActiveAlertLimit of the
\* events it held followed by the new ones, in recording order.
C9_ActiveAlertsCapped ==
  [][/\ Len(alerts') <= ActiveAlertLimit
     /\ (alert_history' # alert_history)
          => alerts' = LastN(alerts \o Recorded, ActiveAlertLimit)
     /\ (alert_history' = alert_history) => alerts' = alerts]_vars

\* C9 witness: more events were recorded than the view holds, and the view
\* is full.
C9_Witness ==
  /\ Len(alert_history) > ActiveAlertLimit
  /\ Len(alerts) = ActiveAlertLimit

\* The rate of a network counter between the previous snapshot and the one
\* this step samples is greater than the network threshold.
RateExceeds(key) ==
  LET prev == sampled[Len(sampled)]
      cur == metrics'
      elapsed == cur.time - prev.time
  IN IF sampled = <<>> \/ elapsed <= 0 THEN FALSE
     ELSE cur[key] - prev[key] > thresholds.network * elapsed

\* C10: a round records a network-sent (network-recv) alert exactly when the
\* rate of the sent (received) counter is greater than the network
\* threshold.
C10_NetworkRateAlert ==
  [][sampled' # sampled =>
       /\ RateExceeds("network_sent")
            <=> \E i \in 1..Len(Recorded) : Recorded[i][2][1] = "NET SENT"
       /\ RateExceeds("network_recv")
            <=> \E i \in 1..Len(Recorded) : Recorded[i][2][1] = "NET RECV"]_vars

\* The rate of a network counter between the previous snapshot and the one
\* this step samples: 0 on the first sample and when the counter decreased.
NetworkRate(key) ==
  LET prev == sampled[Len(sampled)]
      cur == metrics'
      elapsed == cur.time - prev.time
  IN IF sampled = <<>> THEN 0
     ELSE IF elapsed <= 0 \/ cur[key] < prev[key] THEN 0
     ELSE (cur[key] - prev[key]) \div elapsed

\* C11: the network value a round records in the history is the rate of the
\* counter since the previous snapshot (0 on the first sample and when the
\* counter decreased), and no recorded network value is negative.
C11_NetworkRateRecorded ==
  [][sampled' # sampled =>
       \A key \in {"network_sent", "network_recv"} :
         LET series == metrics_history'[key]
         IN /\ series # <<>>
            /\ series[Len(series)] = NetworkRate(key)
            /\ \A i \in 1..Len(series) : series[i] >= 0]_vars

\* The order in which check_thresholds is said to examine the metrics.
FixedOrder ==
  <<"cpu", "memory", "disk", "network_sent", "network_recv", "process">>

\* The label of the message of a metric of FixedOrder.
OrderLabel(metric) ==
  CASE metric = "network_sent" -> "NET SENT"
    [] metric = "network_recv" -> "NET RECV"
    [] OTHER -> Label(metric)

\* The metric violates its threshold in the round this step samples: its
\* value (for the network, the rate of its counter) is above the threshold.
Violates(metric) ==
  IF metric \in {"network_sent", "network_recv"} THEN RateExceeds(metric)
  ELSE metrics'[metric] > thresholds[metric]

\* The labels of the events this step records, in recording order.
RecordedLabels == [i \in 1..Len(Recorded) |-> Recorded[i][2][1]]

\* The labels of the events at the end of the alerts view after this step.
ShownLabels ==
  LET n == Min(Len(Recorded), ActiveAlertLimit)
      shown == LastN(alerts', n)
  IN [i \in 1..n |-> shown[i][2][1]]

\* C12: the events a round records are, in the alert log and at the end of
\* the alerts view, those of the metrics that violated their threshold in
\* that round, in the order cpu, memory, disk, network-sent, network-recv,
\* process.
C12_FixedAlertOrder ==
  [][sampled' # sampled =>
       LET violating == SelectSeq(FixedOrder, LAMBDA metric : Violates(metric))
           expected == [i \in 1..Len(violating) |-> OrderLabel(violating[i])]
       IN /\ RecordedLabels = expected
          /\ ShownLabels = expected]_vars

\* The events a round records keep the order cpu, memory, disk, process
\* (no network event is ever among them).
EmittedInFixedOrder ==
  [][sampled' # sampled =>
       LET emitting == SelectSeq(<<"cpu", "memory", "disk", "process">>,
                                 LAMBDA metric : Violates(metric))
           expected == [i \in 1..Len(emitting) |-> Label(emitting[i])]
       IN /\ RecordedLabels = expected
          /\ ShownLabels = expected]_vars

\* The metric violates the current threshold in the j-th sampled round: its
\* value (for the network, the rate of its counter since round j - 1) is
\* above the threshold.
ViolatedAt(metric, j) ==
  IF metric \in {"network_sent", "network_recv"}
  THEN IF j = 1 THEN FALSE
       ELSE sampled[j][metric] - sampled[j - 1][metric]
              > thresholds.network * (sampled[j].time - sampled[j - 1].time)
  ELSE sampled[j][metric] > thresholds[metric]

\* The times of the events the alert log holds for a metric.
LoggedTimes(metric) ==
  {alert_history[i][1] :
     i \in {n \in 1..Len(alert_history) : alert_history[n][2][1] = OrderLabel(metric)}}

\* The number of events the alert log holds for a metric.
LoggedCount(metric) ==
  Cardinality({i \in 1..Len(alert_history) :
                 alert_history[i][2][1] = OrderLabel(metric)})

\* The alert log holds, for a metric, one event for each sampled round in
\* which the metric violated the threshold, with that round's time.
OnePerViolatingRound(metric) ==
  LET rounds == {j \in 1..Len(sampled) : ViolatedAt(metric, j)}
  IN /\ LoggedCount(metric) = Cardinality(rounds)
     /\ LoggedTimes(metric) = {sampled[j].time : j \in rounds}

\* C13: with the thresholds left as they are, the alert log holds for every
\* metric one event per sampled round in which the metric was above its
\* threshold, whatever was recorded in the rounds before (a metric above its
\* threshold in k consecutive rounds has k events).
C13_NoHysteresis ==
  \A metric \in {FixedOrder[i] : i \in 1..Len(FixedOrder)} :
    OnePerViolatingRound(metric)

\* The same for the metrics check_thresholds emits events for.
NoHysteresisOfEmitted ==
  \A metric \in {"cpu", "memory", "disk", "process"} :
    OnePerViolatingRound(metric)

\* The events this step records are one per metric of the set that violates
\* its threshold in the round, each with the time of the round's snapshot,
\* which is the time the round appends to the history.
OneTimedEventEach(metricSet) ==
  LET violating == {metric \in metricSet : Violates(metric)}
      times == metrics_history'["time"]
  IN /\ Len(Recorded) = Cardinality(violating)
     /\ \A metric \in violating :
          Cardinality({i \in 1..Len(Recorded) :
                         Recorded[i][2][1] = OrderLabel(metric)}) = 1
     /\ times # <<>>
     /\ times[Len(times)] = metrics'.time
     /\ \A i \in 1..Len(Recorded) : Recorded[i][1] = times[Len(times)]

\* C14: a round records one event per metric that violates its threshold in
\* it, and each of these events carries the time of the round's snapshot,
\* the time the round appends to the history's time series.
C14_OneTimedEventPerViolation ==
  [][sampled' # sampled =>
       OneTimedEventEach({FixedOrder[i] : i \in 1..Len(FixedOrder)})]_vars

\* The same for the metrics check_thresholds emits events for.
TimedEventPerEmitted ==
  [][sampled' # sampled =>
       OneTimedEventEach({"cpu", "memory", "disk", "process"})]_vars

\* C15: a step that changes the state of a network check button or a
\* visibility flag leaves the history, the thresholds, the alerts, the alert
\* log, the interval, the paused flag, the timer and what was sampled as
\* they were: nothing but the visibility changes.
C15_VisibilityToggleFrame ==
  [][(\/ network_toggle' # network_toggle
      \/ show_network_sent' # show_network_sent
      \/ show_network_recv' # show_network_recv)
       => /\ UNCHANGED <<metrics_history, thresholds, alerts, alert_history,
                         update_interval, paused>>
          /\ UNCHANGED <<timer_running, timer_interval, timer_due, animation>>
          /\ UNCHANGED <<sampled, metrics, status_text>>
          /\ show_network_sent' = network_toggle'[1]
          /\ show_network_recv' = network_toggle'[2]]_vars

\* C15 witness: the sent series was hidden after rounds that filled the
\* history and raised alerts; the timer runs.
C15_Witness ==
  /\ ~show_network_sent
  /\ show_network_recv
  /\ metrics_history["network_sent"] # <<>>
  /\ alert_history # <<>>
  /\ timer_running
  /\ ~paused

\* The configuration and the timer's settings: what pause, the interval
\* slider, the threshold boxes and the visibility buttons set.
configuration ==
  <<thresholds, update_interval, paused, timer_running, timer_interval,
    show_network_sent, show_network_recv, network_toggle>>

\* C16: while a call of update_dashboard is in progress no other call of it
\* begins and no step changes the configuration; and the call leaves the
\* alerts, the alert log, the history and the status as the whole handler
\* gives them from the state and the thresholds it was entered with (one
\* set of thresholds for every metric it checks).
C16_TicksNotInterleaved ==
  [][/\ (tick.pc # "idle") => UNCHANGED configuration
     /\ (tick.pc # "idle" /\ tick'.pc = "sampling") => tick' = tick
     /\ (tick.pc \in {"checking", "appending"} /\ tick'.pc # "idle")
          => /\ tick'.m = tick.m
             /\ tick'.entry = tick.entry
             /\ tick'.pc \in {tick.pc, "appending"}
     /\ (tick.pc = "appending" /\ tick'.pc = "idle")
          => DashboardState' =
               DashboardUpdate(tick.entry.st, FALSE, tick.m, tick.entry.thresholds)
     /\ (tick.pc = "sampling" /\ tick'.pc = "idle")
          => DashboardState' = DashboardUpdate(tick.entry.st, FALSE, None, thresholds)]_vars

\* C16 witness: a call of update_dashboard is about to check the thresholds
\* of its snapshot while the next expiry of the timer is already posted,
\* after a threshold change and an interval change made between calls.
C16_Witness ==
  /\ tick.pc = "checking"
  /\ timer_due
  /\ thresholds.cpu # DefaultThresholds.cpu
  /\ update_interval # InitialInterval
  /\ Len(sampled) = MaxRounds

\* C17: in every step the alert log keeps what it held as a prefix of what
\* it holds after (nothing is removed or altered, its length never
\* decreases), a round adds to it every event it emits, and every event of
\* the alerts view is in it.
C17_AlertLogAppendOnly ==
  [][/\ Len(alert_history') >= Len(alert_history)
     /\ SubSeq(alert_history', 1, Len(alert_history)) = alert_history
     /\ (sampled' # sampled) => Recorded = AlertTuples(metrics', thresholds)
     /\ \A i \in 1..Len(alerts') :
          \E j \in 1..Len(alert_history') : alert_history'[j] = alerts'[i]]_vars

\* C17 witness: the log holds more events than the view can show, and the
\* last round sampled a snapshot that raised no alert.
C17_Witness ==
  /\ Len(alert_history) > ActiveAlertLimit
  /\ IsSnapshot(metrics)
  /\ AlertTuples(metrics, thresholds) = <<>>
  /\ metrics_history["time"][Len(metrics_history["time"])] = metrics.time

\* The snapshot m is the newest entry of every series of the history.
NewestInHistory(m) ==
  \A k \in HistoryKeys :
    /\ metrics_history[k] # <<>>
    /\ metrics_history[k][Len(metrics_history[k])] = m[k]

\* C18 as claimed: when check_thresholds has recorded the alerts of a
\* snapshot, the snapshot is already the newest entry of the history.
C18_AppendedBeforeChecked ==
  (tick.pc = "appending") => NewestInHistory(tick.m)

\* C18 as the code has it: when check_thresholds has recorded the alerts of
\* a snapshot, the history is still the one the call was entered with and
\* holds no entry of the snapshot's time; the snapshot is its newest entry
\* when the call has returned.
C18_CheckedBeforeAppended ==
  /\ (tick.pc = "appending") =>
       /\ metrics_history = tick.entry.st.metrics_history
       /\ \A i \in 1..Len(metrics_history["time"]) :
            metrics_history["time"][i] # tick.m.time
       /\ alert_history = tick.entry.st.alert_history \o AlertTuples(tick.m, thresholds)
  /\ (tick.pc = "idle" /\ IsSnapshot(metrics)) => NewestInHistory(metrics)

\* C18 witness: the alerts of the second snapshot are recorded and the
\* history holds the first snapshot only.
C18_Witness ==
  /\ tick.pc = "appending"
  /\ alert_history # tick.entry.st.alert_history
  /\ alerts[Len(alerts)][1] = tick.m.time
  /\ Len(metrics_history["time"]) = 1
  /\ Len(sampled) = 2

\* C19: between calls of update_dashboard the seven series of the history
\* have the same length, and the entries they hold at one index are the
\* values of one sampled snapshot.
C19_HistoryHoldsWholeSnapshots ==
  Idle =>
    LET n == Len(metrics_history["time"])
    IN /\ \A k \in HistoryKeys : Len(metrics_history[k]) = n
       /\ \A i \in 1..n :
            \E j \in 1..Len(sampled) :
              \A k \in HistoryKeys : metrics_history[k][i] = sampled[j][k]

\* C19 witness: the history is full and has evicted a snapshot, and the
\* source failed in the last tick.
C19_Witness ==
  /\ Len(metrics_history["process"]) = max_data_points
  /\ Len(sampled) = max_data_points + 1
  /\ metrics = None
  /\ status_text = StatusMetricsError

\* The last call of get_system_metrics failed and the dashboard is not paused.
FailedAndRunning == animation /\ metrics = None /\ ~paused

\* C20: a tick in which get_system_metrics returns None leaves the dashboard
\* not paused, the timer armed, the timer's interval and update_interval as
\* they were, and shows METRICS ERROR; the next tick that samples a snapshot
\* appends this one snapshot to every series of the history; and, the timer
\* firing fairly, after a failed tick another expiry is posted unless the
\* dashboard is paused.
C20_FailureRecovered ==
  /\ [][/\ (~paused /\ update_dashboard(None, LastTime + 1))
             => /\ ~paused'
                /\ timer_running'
                /\ UNCHANGED <<timer_interval, update_interval, animation>>
                /\ status_text' = StatusMetricsError
        /\ (metrics = None /\ sampled' # sampled)
             => /\ sampled' = Append(sampled, metrics')
                /\ \A k \in HistoryKeys :
                     metrics_history'[k] =
                       LastN(Append(metrics_history[k], metrics'[k]), max_data_points)]_vars
  /\ (FailedAndRunning ~> (timer_due \/ paused))

\* C20 witness: a snapshot was sampled and appended by the tick after a
\* failed one (the METRICS ERROR status is still shown), and the timer runs
\* at the interval set before the failure.
C20_Witness ==
  /\ status_text = StatusMetricsError
  /\ IsSnapshot(metrics)
  /\ metrics_history["time"] # <<>>
  /\ metrics_history["time"][Len(metrics_history["time"])] = metrics.time
  /\ timer_running
  /\ timer_interval = 3000
  /\ ~paused

\* C21: in every state the alerts view is the last
\* min(ActiveAlertLimit, length of the log) events of the alert log, in the
\* log's order; and a round that samples a snapshot raising no alert leaves
\* the view as it was.
C21_ActiveAlertsAreLogSuffix ==
  /\ [](LET n == Min(ActiveAlertLimit, Len(alert_history))
        IN /\ Len(alerts) = n
           /\ \A i \in 1..n : alerts[i] = alert_history[Len(alert_history) - n + i])
  /\ [][(sampled' # sampled /\ NewAlerts(metrics', thresholds) = <<>>)
          => alerts' = alerts]_vars

\* C21 witness: the log holds four events more than the view, whose oldest
\* event is the fifth of the log, and the last round raised no alert.
C21_Witness ==
  /\ Len(alert_history) = ActiveAlertLimit + 4
  /\ Len(alerts) = ActiveAlertLimit
  /\ alerts[1] = alert_history[5]
  /\ IsSnapshot(metrics)
  /\ NewAlerts(metrics, thresholds) = <<>>

====
